---------------------------- MODULE Spec2Model ----------------------------
(***************************************************************************)
(* Model of builddb.py (meermanr/whathifi): a crawler that discovers       *)
(* review articles from a paginated listing, extracts one record per       *)
(* article, stores the records in a MongoDB collection and aggregates      *)
(* them.                                                                   *)
(*                                                                         *)
(* Text is modelled as sequences of one-character strings, so that the     *)
(* string operations of the source (replace, isdigit, float, findall) are  *)
(* computed character by character.                                        *)
(*                                                                         *)
(* build_db reads the names rSearchURL and sCol, which are locals of main   *)
(* (as written, build_db raises NameError at line 102).  The model         *)
(* resolves them to main's bindings, the collection sCol and the listing   *)
(* behind rSearchURL, so that the crawl runs.                              *)
(***************************************************************************)
EXTENDS Integers, Sequences, FiniteSets, TLC

VARIABLES
    site,          \* the listing: site[k+1] is the document served for page k
    details,       \* details[u]: the document served for u + "/specs"
    sCol,          \* the collection av_receivers: documents in insertion order
    pc,            \* position of the running program
    entry,         \* the operation the current run called: "main" or "build_db"
    iPage,         \* iter_articles: iPage
    rDocument,     \* iter_articles: rDocument, the listing page last read
    lArticles,     \* iter_articles: the part of lArticles not yet yielded
    fetched,       \* history: page indices fetched by this run, in order
    yielded,       \* history: URLs yielded by this run, in order
    extracted,     \* history: URLs extract_article_data was called with, this run
    dupInsert,     \* history: insert was called for a URL that had a record
    run,           \* number of the current run
    sColAtStart,   \* history: sCol when the current run started
    prevAbort,     \* history: the previous run's crawl aborted after inserting
    failure,       \* how the current run failed: "none", "fetch", "parse", "index"
    input,         \* the specification row <<name cell, value cell>> read from a document
    output         \* what the last aggregation returned

vars == <<site, details, sCol, pc, entry, iPage, rDocument, lArticles, fetched,
          yielded, extracted, dupInsert, run, sColAtStart, prevAbort, failure,
          input, output>>

-----------------------------------------------------------------------------
(* Characters and Python's string operations                               *)

Digits == {"0", "1", "2", "3", "4", "5", "6", "7", "8", "9"}

Whitespace == {" "}

Signs == {"+", "-"}

DigitVal(c) ==
    CASE c = "0" -> 0 [] c = "1" -> 1 [] c = "2" -> 2 [] c = "3" -> 3
      [] c = "4" -> 4 [] c = "5" -> 5 [] c = "6" -> 6 [] c = "7" -> 7
      [] c = "8" -> 8 [] c = "9" -> 9

\* the value of a run of decimal digits (int of a digit string)
RECURSIVE IntOf(_)
IntOf(s) ==
    IF s = <<>> THEN 0
    ELSE IntOf(SubSeq(s, 1, Len(s) - 1)) * 10 + DigitVal(s[Len(s)])

RECURSIVE LStrip(_)
LStrip(s) ==
    IF s # <<>> /\ Head(s) \in Whitespace THEN LStrip(Tail(s)) ELSE s

RECURSIVE RStrip(_)
RStrip(s) ==
    IF s # <<>> /\ s[Len(s)] \in Whitespace
    THEN RStrip(SubSeq(s, 1, Len(s) - 1)) ELSE s

Strip(s) == RStrip(LStrip(s))

\* str.isdigit: every character is a digit and there is at least one
IsDigit(s) == s # <<>> /\ \A i \in 1..Len(s) : s[i] \in Digits

StartsWith(s, p) == Len(s) >= Len(p) /\ SubSeq(s, 1, Len(p)) = p

\* str.replace(old, new): every non-overlapping occurrence, left to right
RECURSIVE Replace(_, _, _)
Replace(s, old, new) ==
    IF s = <<>> THEN <<>>
    ELSE IF StartsWith(s, old)
         THEN new \o Replace(SubSeq(s, Len(old) + 1, Len(s)), old, new)
         ELSE <<Head(s)>> \o Replace(Tail(s), old, new)

\* re.findall("\d+", s): the maximal digit runs of s, in order
RECURSIVE DigitRuns(_, _, _)
DigitRuns(s, i, cur) ==
    IF i > Len(s) THEN (IF cur = <<>> THEN <<>> ELSE <<cur>>)
    ELSE IF s[i] \in Digits THEN DigitRuns(s, i + 1, Append(cur, s[i]))
    ELSE (IF cur = <<>> THEN <<>> ELSE <<cur>>) \o DigitRuns(s, i + 1, <<>>)

FindAllDigits(s) == DigitRuns(s, 1, <<>>)

LowerChar(c) ==
    CASE c = "I" -> "i" [] c = "N" -> "n" [] c = "F" -> "f" [] c = "A" -> "a"
      [] c = "T" -> "t" [] c = "Y" -> "y" [] c = "E" -> "e" [] OTHER -> c

Lower(s) == [i \in 1..Len(s) |-> LowerChar(s[i])]

\* float(s): the literal float() accepts, after stripping white space:
\*   [sign] (digits [. [digits]] | . digits) [(e|E) [sign] digits]
\*   [sign] (inf | infinity | nan), in any case
Unsigned(s) == IF s # <<>> /\ Head(s) \in Signs THEN Tail(s) ELSE s

IsMantissa(m) ==
    /\ \A i \in 1..Len(m) : m[i] \in Digits \cup {"."}
    /\ Cardinality({i \in 1..Len(m) : m[i] = "."}) <= 1
    /\ \E i \in 1..Len(m) : m[i] \in Digits

ExpAt(b) == {i \in 1..Len(b) : b[i] \in {"e", "E"}}

FirstExp(b) == CHOOSE i \in ExpAt(b) : \A j \in ExpAt(b) : i <= j

IsDecimal(b) ==
    IF ExpAt(b) = {} THEN IsMantissa(b)
    ELSE /\ IsMantissa(SubSeq(b, 1, FirstExp(b) - 1))
         /\ IsDigit(Unsigned(SubSeq(b, FirstExp(b) + 1, Len(b))))

InfWords == {<<"i", "n", "f">>, <<"i", "n", "f", "i", "n", "i", "t", "y">>}

NanWords == {<<"n", "a", "n">>}

FloatParses(s) ==
    LET b == Unsigned(Strip(s))
    IN  IsDecimal(b) \/ Lower(b) \in InfWords \cup NanWords

\* the value float(s) returns, for a literal it accepts: a finite value is
\* (-1)^neg * mant * 10^exp
FloatOf(s) ==
    LET t    == Strip(s)
        neg  == t # <<>> /\ Head(t) = "-"
        b    == Unsigned(t)
        m    == IF ExpAt(b) = {} THEN b ELSE SubSeq(b, 1, FirstExp(b) - 1)
        x    == IF ExpAt(b) = {} THEN <<>>
                ELSE SubSeq(b, FirstExp(b) + 1, Len(b))
        dot  == {i \in 1..Len(m) : m[i] = "."}
        frac == IF dot = {} THEN 0 ELSE Len(m) - (CHOOSE i \in dot : TRUE)
        e    == IF x # <<>> /\ Head(x) = "-" THEN 0 - IntOf(Unsigned(x))
                ELSE IntOf(Unsigned(x))
    IN  IF Lower(b) \in InfWords THEN [kind |-> "inf", neg |-> neg]
        ELSE IF Lower(b) \in NanWords THEN [kind |-> "nan"]
        ELSE [kind |-> "finite", neg |-> neg,
              mant |-> IntOf(SelectSeq(m, LAMBDA c : c \in Digits)),
              exp  |-> e - frac]


\* int(s) of Python 2: white space stripped, an optional sign, then digits
IntParses(s) == IsDigit(Unsigned(Strip(s)))

PyInt(s) ==
    LET t == Strip(s)
    IN  IF t # <<>> /\ Head(t) = "-" THEN 0 - IntOf(Unsigned(t))
        ELSE IntOf(Unsigned(t))

\* sub in s
Contains(s, sub) ==
    \E i \in 1..(Len(s) - Len(sub) + 1) : SubSeq(s, i, i + Len(sub) - 1) = sub

-----------------------------------------------------------------------------
(* extract_article_data                                                    *)

\* the token a literal period of a spec name is replaced by
EscapeToken == <<"&", "#", "4", "6", ";">>

Period == <<".">>

THX == <<"T", "H", "X">>

VideoScaling ==
    <<"V", "i", "d", "e", "o", " ", "s", "c", "a", "l", "i", "n", "g">>

Yes == <<"Y", "e", "s">>

No == <<"N", "o">>

\* the names whose values are not interpreted
Uninterpreted == {THX, VideoScaling}

\* "Yes" and "No" tested before the uninterpreted names
InferValueBoolFirst(rSpecName, mSpecValue) ==
    IF mSpecValue = No THEN [type |-> "bool", val |-> FALSE]
    ELSE IF mSpecValue = Yes THEN [type |-> "bool", val |-> TRUE]
    ELSE IF rSpecName \in {THX, VideoScaling}
         THEN [type |-> "str", val |-> mSpecValue]
    ELSE IF IsDigit(mSpecValue)
         THEN [type |-> "int", val |-> IntOf(mSpecValue)]
    ELSE IF FloatParses(mSpecValue)
         THEN [type |-> "float", val |-> FloatOf(mSpecValue)]
    ELSE LET runs == FindAllDigits(mSpecValue)
         IN  IF Len(runs) = 0 THEN [type |-> "int", val |-> 0]
             ELSE IF Len(runs) = 1 THEN [type |-> "str", val |-> runs[1]]
             ELSE [type |-> "list", val |-> runs]

\* the if/elif chain over one row: rSpecName is the escaped name, mSpecValue
\* the captured value.  A value is [type, val] with the Python type as type.
InferValue(rSpecName, mSpecValue) ==
    IF rSpecName \in Uninterpreted THEN [type |-> "str", val |-> mSpecValue]
    ELSE IF mSpecValue = No THEN [type |-> "bool", val |-> FALSE]
    ELSE IF mSpecValue = Yes THEN [type |-> "bool", val |-> TRUE]
    ELSE IF IsDigit(mSpecValue)
         THEN [type |-> "int", val |-> IntOf(mSpecValue)]
    ELSE IF FloatParses(mSpecValue)
         THEN [type |-> "float", val |-> FloatOf(mSpecValue)]
    ELSE LET runs == FindAllDigits(mSpecValue)
         IN  IF Len(runs) = 0 THEN [type |-> "int", val |-> 0]
             ELSE IF Len(runs) = 1 THEN [type |-> "str", val |-> runs[1]]
             ELSE [type |-> "list", val |-> runs]

\* rSpecName.replace(".", "&#46;")
EscapeName(rSpecName) == Replace(rSpecName, Period, EscapeToken)

\* sPatItemSpec.finditer over the specification table: a row is a pair of
\* cell texts <<name cell, value cell>>; the pattern needs a non-empty name
\* cell and captures the value cell without the white space around it
MatchRows(table) ==
    LET hit == SelectSeq(table, LAMBDA row : row[1] # <<>>)
    IN  [i \in 1..Len(hit) |-> <<hit[i][1], Strip(hit[i][2])>>]

\* the loop over the rows: a later row replaces an earlier one of the same key
RECURSIVE SpecOfRows(_, _)
SpecOfRows(rows, dSpec) ==
    IF rows = <<>> THEN dSpec
    ELSE LET rSpecName == EscapeName(rows[1][1])
             mSpecValue == InferValue(rSpecName, rows[1][2])
         IN  SpecOfRows(Tail(rows),
                        [k \in DOMAIN dSpec \cup {rSpecName} |->
                            IF k = rSpecName THEN mSpecValue ELSE dSpec[k]])

\* a missing rating read as 0 instead of raising
ExtractArticleDataLenient(rURL, doc) ==
    IF doc.name = <<>> \/ doc.price = <<>>
    THEN [ok |-> FALSE, error |-> "AttributeError"]
    ELSE IF doc.rating # <<>> /\ ~IntParses(doc.rating[1])
    THEN [ok |-> FALSE, error |-> "ValueError"]
    ELSE [ok |-> TRUE,
          data |-> [URL    |-> rURL,
                    name   |-> doc.name[1],
                    price  |-> PyInt(doc.price[1]),
                    rating |-> IF doc.rating = <<>> THEN 0 ELSE PyInt(doc.rating[1]),
                    spec   |-> SpecOfRows(MatchRows(doc.table), <<>>)]]

\* A detail document is [name, price, rating, table]: name, price and rating
\* are what the first match of sPatItemName, sPatItemPrice and sPatItemValue
\* captures, as <<capture>>, or <<>> when the pattern does not match (search
\* returns None); table is the specification table.
\* The result is [ok |-> TRUE, data |-> dData] or [ok |-> FALSE, error |-> e].
ExtractArticleData(rURL, doc) ==
    IF doc.name = <<>> \/ doc.price = <<>> \/ doc.rating = <<>>
    THEN [ok |-> FALSE, error |-> "AttributeError"]
    ELSE IF ~IntParses(doc.rating[1])
    THEN [ok |-> FALSE, error |-> "ValueError"]
    ELSE [ok |-> TRUE,
          data |-> [URL    |-> rURL,
                    name   |-> doc.name[1],
                    price  |-> PyInt(doc.price[1]),
                    rating |-> PyInt(doc.rating[1]),
                    spec   |-> SpecOfRows(MatchRows(doc.table), <<>>)]]

-----------------------------------------------------------------------------
(* The collection                                                          *)

\* sCol.find({"URL": rURL}).count()
FindCount(col, rURL) == Cardinality({i \in 1..Len(col) : col[i].URL = rURL})

\* the test read as "more than one document": a stored URL is not skipped
AlreadyInDBOffByOne(col, rURL) == FindCount(col, rURL) > 1

\* the test left out: every yielded URL is extracted and inserted
AlreadyInDBUnchecked(col, rURL) == FALSE

\* the test of build_db that skips a URL
AlreadyInDB(col, rURL) == FindCount(col, rURL) = 1

UrlsOf(col) == {col[i].URL : i \in 1..Len(col)}

-----------------------------------------------------------------------------
(* iter_articles                                                           *)

\* A listing document is a sequence of pieces [tag, text]: an article-title
\* anchor (tag "h3a", text the href) or any other text.
Anchor(href) == [tag |-> "h3a", text |-> href]

Other(text) == [tag |-> "other", text |-> text]

PageMarker == <<"?", "p", "a", "g", "e", "=">>

\* sReviewPat.findall(rDocument): the hrefs of the title anchors, in order
FindAll(doc) ==
    LET hit == SelectSeq(doc, LAMBDA piece : piece.tag = "h3a")
    IN  [i \in 1..Len(hit) |-> hit[i].text]

\* "?page=" in rDocument
HasMarker(doc) == \E i \in 1..Len(doc) : Contains(doc[i].text, PageMarker)

\* the loop ended by a page without articles instead of by the marker
MorePagesWhileArticles(doc) == FindAll(doc) # <<>>

\* the loop of iter_articles goes on after this page
MorePages(doc) == HasMarker(doc)

-----------------------------------------------------------------------------
(* The aggregations.  Each returns [ok |-> TRUE, value |-> v], or          *)
(* [ok |-> FALSE, error |-> e] when the Python code raises e.               *)

\* scope={'BANDWIDTH':500}
BANDWIDTH == 500

MinOfSet(S) == CHOOSE x \in S : \A y \in S : x <= y

MaxOfSet(S) == CHOOSE x \in S : \A y \in S : x >= y

PriceSet(col) == {col[i].price : i \in 1..Len(col)}

\* an empty result answered with a default range instead of indexing row 0
GetPriceRangeDefault(col) ==
    IF col = <<>> THEN [ok |-> TRUE, value |-> <<0, 0>>]
    ELSE [ok |-> TRUE,
          value |-> <<MinOfSet(PriceSet(col)), MaxOfSet(PriceSet(col))>>]

\* get_price_range: the first row of the aggregate's result; an empty
\* collection gives an empty result, and [0] raises IndexError
GetPriceRange(col) ==
    IF col = <<>> THEN [ok |-> FALSE, error |-> "IndexError"]
    ELSE [ok |-> TRUE,
          value |-> <<MinOfSet(PriceSet(col)), MaxOfSet(PriceSet(col))>>]

\* {'$group': {'_id': "$rating", 'prices': {'$push': "$price"}}}
GroupByRating(col) ==
    {[id     |-> r,
      prices |-> LET hit == SelectSeq(col, LAMBDA d : d.rating = r)
                 IN  [i \in 1..Len(hit) |-> hit[i].price]] :
        r \in {col[i].rating : i \in 1..Len(col)}}

RECURSIVE SumSeq(_)
SumSeq(s) == IF s = <<>> THEN 0 ELSE Head(s) + SumSeq(Tail(s))

\* the second loop's fMin and fMax, which start at +inf and -inf: a bound is
\* [inf |-> TRUE] or [inf |-> FALSE, v |-> the price]
RECURSIVE LoopMin(_, _)
LoopMin(prices, fMin) ==
    IF prices = <<>> THEN fMin
    ELSE LoopMin(Tail(prices),
                 IF fMin.inf \/ Head(prices) < fMin.v
                 THEN [inf |-> FALSE, v |-> Head(prices)] ELSE fMin)

RECURSIVE LoopMax(_, _)
LoopMax(prices, fMax) ==
    IF prices = <<>> THEN fMax
    ELSE LoopMax(Tail(prices),
                 IF fMax.inf \/ Head(prices) > fMax.v
                 THEN [inf |-> FALSE, v |-> Head(prices)] ELSE fMax)

\* the second loop's fResidual, the sum of (fPrice - fMeanPrice)**2, as the
\* numerator over mean.den^2: (p - n/d)^2 = (p*d - n)^2 / d^2
RECURSIVE LoopResidual(_, _)
LoopResidual(prices, mean) ==
    IF prices = <<>> THEN 0
    ELSE (Head(prices) * mean.den - mean.num) * (Head(prices) * mean.den - mean.num)
         + LoopResidual(Tail(prices), mean)

\* math.sqrt(fResidual) / fCount, kept exact: the value is sqrt(sqrtOf) / over
StandardDeviation(fResidual, fCount) == [sqrtOf |-> fResidual, over |-> fCount]

\* the body of the loop over the groups: the values handed to print.
\* A fraction is [num, den].
SpreadRow(dDoc) ==
    LET fTotal     == SumSeq(dDoc.prices)
        fCount     == Len(dDoc.prices)
        fMeanPrice == [num |-> fTotal, den |-> fCount]
        fResidual  == [num |-> LoopResidual(dDoc.prices, fMeanPrice),
                       den |-> fCount * fCount]
    IN  [rating |-> dDoc.id,
         mean   |-> fMeanPrice,
         min    |-> LoopMin(dDoc.prices, [inf |-> TRUE]),
         max    |-> LoopMax(dDoc.prices, [inf |-> TRUE]),
         stddev |-> StandardDeviation(fResidual, fCount)]

\* price_spread_by_rating: one printed row per group
PriceSpreadByRating(col) ==
    [ok |-> TRUE, value |-> {SpreadRow(dDoc) : dDoc \in GroupByRating(col)}]

\* x.replace('&#46;', '.')
UnescapeName(x) == Replace(x, EscapeToken, Period)

\* find_distinct_specs: the map emits every key of every document's spec,
\* the result holds each distinct key once; then each key is unescaped
FindDistinctSpecs(col) ==
    [ok |-> TRUE,
     value |-> {UnescapeName(x) : x \in UNION {DOMAIN col[i].spec : i \in 1..Len(col)}}]

\* the bucket taken as the next multiple above the floor: a price on a
\* boundary moves up one bucket
BucketAboveFloor(price) == (price \div BANDWIDTH + 1) * BANDWIDTH

\* Math.ceil(this.price / BANDWIDTH) * BANDWIDTH
Bucket(price) == (0 - ((0 - price) \div BANDWIDTH)) * BANDWIDTH

\* the key the map function emits for a document
MapKey(d) == <<d.rating, Bucket(d.price)>>

\* calc_rating_price_frequency: map, reduce (sum of the 1s), finalize
CalcRatingPriceFrequency(col) ==
    [ok |-> TRUE,
     value |-> {[rating |-> lKey[1], price |-> lKey[2],
                 count  |-> Cardinality({i \in 1..Len(col) : MapKey(col[i]) = lKey})] :
                    lKey \in {MapKey(col[i]) : i \in 1..Len(col)}}]

\* main, lines 262-265: the four aggregations in turn; the first error ends it
Aggregations(col) ==
    IF ~GetPriceRange(col).ok THEN GetPriceRange(col)
    ELSE [ok |-> TRUE,
          value |-> [range  |-> GetPriceRange(col).value,
                     spread |-> PriceSpreadByRating(col).value,
                     specs  |-> FindDistinctSpecs(col).value,
                     freq   |-> CalcRatingPriceFrequency(col).value]]

-----------------------------------------------------------------------------
(* The web site and the bounds of the model                                *)

\* listing pages the site has; a request for a page past the last one fails
MaxPages == 2

\* runs of the program over the same collection
MaxRuns == 2

A1 == <<"/", "a">>

A2 == <<"/", "b">>

URLs == {A1, A2}

NextLink == Other(<<"?", "p", "a", "g", "e", "=", "1">>)

Filler == Other(<<"&", "p", "a", "g", "e", "=">>)

ListingDocs ==
    { <<>>,
      <<NextLink>>,
      <<Anchor(A1), NextLink, Anchor(A2)>>,
      <<Anchor(A2), Anchor(A1)>>,
      <<Anchor(A1), Filler, Anchor(A1)>>,
      <<Anchor(A2), NextLink>> }

Sites == UNION {[1..n -> ListingDocs] : n \in 1..MaxPages}

GoodDoc ==
    [name   |-> << <<"A", "V", "R">> >>,
     price  |-> << <<"2", "4", "9", "9">> >>,
     rating |-> << <<"5">> >>,
     table  |-> << <<THX, Yes>>, <<<<"C", "h", ".">>, <<" ", "7", ".", "1">>>> >>]

NoNameDoc == [GoodDoc EXCEPT !.name = <<>>]

NoPriceDoc == [GoodDoc EXCEPT !.price = <<>>]

NoRatingDoc == [GoodDoc EXCEPT !.rating = <<>>]

BadRatingDoc == [GoodDoc EXCEPT !.rating = << <<"4", ".", "5">> >>]

DetailDocs == {GoodDoc, NoNameDoc, NoPriceDoc, NoRatingDoc, BadRatingDoc}

\* the document lacks the product name, the tested-at price or the rating
Lacks(doc) == doc.name = <<>> \/ doc.price = <<>> \/ doc.rating = <<>>

-----------------------------------------------------------------------------
(* The program: main, build_db and the generator iter_articles             *)

Init ==
    /\ site \in Sites
    /\ details \in [URLs -> DetailDocs]
    /\ sCol = <<>>
    /\ pc = "idle"
    /\ entry = "none"
    /\ iPage = 0
    /\ rDocument = <<>>
    /\ lArticles = <<>>
    /\ fetched = <<>>
    /\ yielded = <<>>
    /\ extracted = <<>>
    /\ dupInsert = FALSE
    /\ run = 0
    /\ sColAtStart = <<>>
    /\ prevAbort = FALSE
    /\ failure = "none"
    /\ input = <<>>
    /\ output = <<>>

\* main, lines 253-260: build_db is called only on an empty collection
StartMain ==
    /\ pc = "idle"
    /\ run < MaxRuns
    /\ run' = run + 1
    /\ entry' = "main"
    /\ pc' = IF Len(sCol) = 0 THEN "fetch" ELSE "aggregate"
    /\ UNCHANGED <<site, details, sCol, iPage, rDocument, lArticles, fetched,
                   yielded, extracted, dupInsert, sColAtStart, prevAbort,
                   failure, input, output>>

\* build_db called on its own, lines 100-102
StartBuildDb ==
    /\ pc = "idle"
    /\ run < MaxRuns
    /\ run' = run + 1
    /\ entry' = "build_db"
    /\ pc' = "fetch"
    /\ UNCHANGED <<site, details, sCol, iPage, rDocument, lArticles, fetched,
                   yielded, extracted, dupInsert, sColAtStart, prevAbort,
                   failure, input, output>>

\* iter_articles, lines 32-38: the page is read
FetchPage ==
    /\ pc = "fetch"
    /\ iPage < Len(site)
    /\ rDocument' = site[iPage + 1]
    /\ lArticles' = FindAll(site[iPage + 1])
    /\ iPage' = iPage + 1
    /\ fetched' = Append(fetched, iPage)
    /\ pc' = "yield"
    /\ UNCHANGED <<site, details, sCol, entry, yielded, extracted, dupInsert,
                   run, sColAtStart, prevAbort, failure, input, output>>

\* iter_articles, line 34: urlopen raises; nothing catches it
FetchPageFails ==
    /\ pc = "fetch"
    /\ fetched' = Append(fetched, iPage)
    /\ pc' = "aborted"
    /\ failure' = "fetch"
    /\ UNCHANGED <<site, details, sCol, entry, iPage, rDocument, lArticles,
                   yielded, extracted, dupInsert, run, sColAtStart, prevAbort,
                   input, output>>

\* build_db, lines 103-106: the next URL is yielded and is already stored
SkipArticle ==
    /\ pc = "yield"
    /\ lArticles # <<>>
    /\ AlreadyInDB(sCol, Head(lArticles))
    /\ yielded' = Append(yielded, Head(lArticles))
    /\ lArticles' = Tail(lArticles)
    /\ UNCHANGED <<site, details, sCol, pc, entry, iPage, rDocument, fetched,
                   extracted, dupInsert, run, sColAtStart, prevAbort, failure,
                   input, output>>

\* build_db, lines 103-109: the next URL is yielded, extracted and inserted
InsertArticle ==
    /\ pc = "yield"
    /\ lArticles # <<>>
    /\ ~AlreadyInDB(sCol, Head(lArticles))
    /\ LET rURL     == Head(lArticles)
           dArticle == ExtractArticleData(rURL, details[rURL])
       IN  /\ dArticle.ok
           /\ sCol' = Append(sCol, dArticle.data)
           /\ dupInsert' = (dupInsert \/ FindCount(sCol, rURL) > 0)
           /\ yielded' = Append(yielded, rURL)
           /\ extracted' = Append(extracted, rURL)
    /\ lArticles' = Tail(lArticles)
    /\ UNCHANGED <<site, details, pc, entry, iPage, rDocument, fetched, run,
                   sColAtStart, prevAbort, failure, input, output>>

\* extract_article_data, lines 63-65: a pattern does not match, or int()
\* rejects the rating; the exception leaves build_db
ExtractFails ==
    /\ pc = "yield"
    /\ lArticles # <<>>
    /\ ~AlreadyInDB(sCol, Head(lArticles))
    /\ ~ExtractArticleData(Head(lArticles), details[Head(lArticles)]).ok
    /\ yielded' = Append(yielded, Head(lArticles))
    /\ extracted' = Append(extracted, Head(lArticles))
    /\ lArticles' = Tail(lArticles)
    /\ pc' = "aborted"
    /\ failure' = "parse"
    /\ UNCHANGED <<site, details, sCol, entry, iPage, rDocument, fetched,
                   dupInsert, run, sColAtStart, prevAbort, input, output>>

\* extract_article_data, line 57: urlopen raises
DetailFetchFails ==
    /\ pc = "yield"
    /\ lArticles # <<>>
    /\ ~AlreadyInDB(sCol, Head(lArticles))
    /\ yielded' = Append(yielded, Head(lArticles))
    /\ extracted' = Append(extracted, Head(lArticles))
    /\ lArticles' = Tail(lArticles)
    /\ pc' = "aborted"
    /\ failure' = "fetch"
    /\ UNCHANGED <<site, details, sCol, entry, iPage, rDocument, fetched,
                   dupInsert, run, sColAtStart, prevAbort, input, output>>

\* iter_articles, lines 43-44: the page's articles are all yielded; the loop
\* goes on, or the generator ends and build_db returns
EndOfPage ==
    /\ pc = "yield"
    /\ lArticles = <<>>
    /\ pc' = IF MorePages(rDocument) THEN "fetch"
             ELSE IF entry = "main" THEN "aggregate" ELSE "done"
    /\ UNCHANGED <<site, details, sCol, entry, iPage, rDocument, lArticles,
                   fetched, yielded, extracted, dupInsert, run, sColAtStart,
                   prevAbort, failure, input, output>>

\* main, lines 262-267
Aggregate ==
    /\ pc = "aggregate"
    /\ output' = Aggregations(sCol)
    /\ pc' = IF Aggregations(sCol).ok THEN "done" ELSE "aborted"
    /\ failure' = IF Aggregations(sCol).ok THEN failure ELSE "index"
    /\ UNCHANGED <<site, details, sCol, entry, iPage, rDocument, lArticles,
                   fetched, yielded, extracted, dupInsert, run, sColAtStart,
                   prevAbort, input>>

\* the process ends; the collection stays
Exit ==
    /\ pc \in {"done", "aborted"}
    /\ pc' = "idle"
    /\ entry' = "none"
    /\ prevAbort' = (failure \in {"fetch", "parse"} /\ Len(sCol) > Len(sColAtStart))
    /\ sColAtStart' = sCol
    /\ iPage' = 0
    /\ rDocument' = <<>>
    /\ lArticles' = <<>>
    /\ fetched' = <<>>
    /\ yielded' = <<>>
    /\ extracted' = <<>>
    /\ failure' = "none"
    /\ output' = <<>>
    /\ UNCHANGED <<site, details, sCol, dupInsert, run, input>>

Next ==
    \/ StartMain
    \/ StartBuildDb
    \/ FetchPage
    \/ FetchPageFails
    \/ SkipArticle
    \/ InsertArticle
    \/ ExtractFails
    \/ DetailFetchFails
    \/ EndOfPage
    \/ Aggregate
    \/ Exit

Spec == Init /\ [][Next]_vars

-----------------------------------------------------------------------------
(* Properties of the crawl                                                 *)

\* the article URLs of pages 1..n of the site, page by page, in document order
RECURSIVE ArticlesUpTo(_)
ArticlesUpTo(n) ==
    IF n = 0 THEN <<>> ELSE ArticlesUpTo(n - 1) \o FindAll(site[n])

\* the URLs a complete walk of the listing yields: the pages up to the first
\* one without the marker
RECURSIVE ListedFrom(_)
ListedFrom(k) ==
    IF k > Len(site) THEN <<>>
    ELSE FindAll(site[k]) \o (IF HasMarker(site[k]) THEN ListedFrom(k + 1) ELSE <<>>)

Listed == {ListedFrom(1)[i] : i \in 1..Len(ListedFrom(1))}

\* the generator of this run ran to its end
Exhausted ==
    /\ fetched # <<>>
    /\ pc \in {"aggregate", "done", "aborted"}
    /\ failure \notin {"fetch", "parse"}

Occurrences(seq, x) == Cardinality({i \in 1..Len(seq) : seq[i] = x})

\* C1: the collection holds at most one document per URL, and insert is never
\* called for a URL that already has a document.
C1_OneRecordPerURL ==
    /\ \A u \in URLs : FindCount(sCol, u) <= 1
    /\ ~dupInsert

\* a URL the listing yielded twice is stored once
C1_Witness ==
    \E u \in URLs : Occurrences(yielded, u) >= 2 /\ FindCount(sCol, u) = 1

\* C2: pages are requested in the order 0, 1, 2, ...; page k+1 is requested
\* only if page k's document holds the marker, and always if it does, however
\* many articles page k held; when the generator ends the last page read has
\* no marker and every article of every page read has been yielded in order;
\* a two-page listing (marker on page 0 only) is read with two requests.
C2_Pagination ==
    /\ \A i \in 1..Len(fetched) : fetched[i] = i - 1
    /\ \A i \in 2..Len(fetched) : HasMarker(site[i - 1])
    /\ (pc = "fetch" /\ iPage > 0) => HasMarker(site[iPage])
    /\ Exhausted => (iPage = Len(fetched) /\ ~HasMarker(site[iPage]))
    /\ iPage <= Len(site)
    /\ Len(yielded) <= Len(ArticlesUpTo(iPage))
    /\ yielded = SubSeq(ArticlesUpTo(iPage), 1, Len(yielded))
    /\ (Exhausted \/ pc = "fetch") => yielded = ArticlesUpTo(iPage)
    /\ (Len(site) = 2 /\ HasMarker(site[1]) /\ ~HasMarker(site[2]))
          => /\ Len(fetched) <= 2
             /\ Exhausted => /\ fetched = <<0, 1>>
                             /\ yielded = FindAll(site[1]) \o FindAll(site[2])

\* a page without articles but with the marker was followed by a second page,
\* whose articles were yielded, and the walk ended there
C2_Witness ==
    /\ Exhausted
    /\ fetched = <<0, 1>>
    /\ FindAll(site[1]) = <<>>
    /\ yielded # <<>>

\* C3: a run against a collection that already holds every URL the listing
\* yields extracts nothing and leaves the collection as it was.
C3_Idempotent ==
    (pc # "idle" /\ Listed \subseteq UrlsOf(sColAtStart))
        => (sCol = sColAtStart /\ extracted = <<>>)

\* a complete second crawl over a populated collection
C3_Witness ==
    /\ pc = "done"
    /\ entry = "build_db"
    /\ Listed # {}
    /\ Listed \subseteq UrlsOf(sColAtStart)
    /\ yielded = ListedFrom(1)

\* the listing can be walked to its end and every listed article can be
\* extracted: a crawl that meets no fetch failure completes
Crawlable ==
    /\ \E k \in 1..Len(site) :
          ~HasMarker(site[k]) /\ \A j \in 1..(k - 1) : HasMarker(site[j])
    /\ \A u \in Listed : ExtractArticleData(u, details[u]).ok

\* C4: over a crawlable site, a run that ends without failure, after a run
\* whose crawl aborted with at least one document inserted, leaves every
\* listed URL with a document.
C4_ResumeAfterAbort ==
    (pc = "done" /\ prevAbort /\ Crawlable)
        => \A u \in Listed : FindCount(sCol, u) >= 1

\* the same for runs that call build_db itself, not main
C4_ResumeByBuildDb ==
    (pc = "done" /\ prevAbort /\ Crawlable /\ entry = "build_db")
        => \A u \in Listed : FindCount(sCol, u) >= 1

\* C10: a URL whose detail document lacks the name, the price or the rating
\* never gets a document; its extraction is the last of the run, which is
\* aborted; the documents stored before it stay, followed by nothing but the
\* documents of the URLs extracted before it.
C10_ParseAbort ==
    /\ \A u \in URLs : Lacks(details[u]) => FindCount(sCol, u) = 0
    /\ \A i \in 1..Len(extracted) :
          Lacks(details[extracted[i]])
              => /\ i = Len(extracted)
                 /\ pc = "aborted"
                 /\ failure \in {"parse", "fetch"}
    /\ (pc = "aborted" /\ failure = "parse")
          => /\ Len(sCol) = Len(sColAtStart) + Len(extracted) - 1
             /\ SubSeq(sCol, 1, Len(sColAtStart)) = sColAtStart
             /\ \A i \in 1..(Len(extracted) - 1) :
                   sCol[Len(sColAtStart) + i].URL = extracted[i]

\* the crawl aborted on a document lacking a field, after an insertion of the
\* same run and with a further page still to come
C10_Witness ==
    /\ pc = "aborted"
    /\ failure = "parse"
    /\ Lacks(details[extracted[Len(extracted)]])
    /\ Len(sCol) > Len(sColAtStart)
    /\ MorePages(rDocument)
    /\ iPage < Len(site)

-----------------------------------------------------------------------------
(* One specification row through extraction, storage and the key report    *)

\* longest value cell enumerated character by character
MaxValueLen == 3

\* most pieces a spec name is put together from
MaxKeyParts == 2

ValueAlphabet == {"0", "1", "5", ".", "/", " ", "c", "-", "e"}

ValueSamples ==
    { Yes, No, <<"y", "e", "s">>, <<" ", "Y", "e", "s", " ">>,
      <<"5", "/", "1", "0", " ", "c", "h">>,
      <<"1", "0", "0", " ", "W">>,
      <<"0", "0", "7">>,
      <<"i", "n", "f">>, <<"N", "a", "N">>,
      <<"7", ".", "1", " ", "c", "h">> }

SpecNames ==
    { THX, VideoScaling, <<"H", "D", "M", "I">>, <<"T", "H", "X", " ">>,
      <<"t", "h", "x">> }

KeyPieces ==
    { Period, EscapeToken, <<"C", "h">>, <<"&">>, <<"#", "4", "6", ";">> }

RECURSIVE Flatten(_)
Flatten(pieces) ==
    IF pieces = <<>> THEN <<>> ELSE Head(pieces) \o Flatten(Tail(pieces))

KeyNames == {Flatten(ps) : ps \in UNION {[1..n -> KeyPieces] : n \in 1..MaxKeyParts}}

\* the detail document of A1 with the one row <<name cell, value cell>>
RowDoc(row) == [GoodDoc EXCEPT !.table = <<row>>]

InitRow ==
    /\ input = <<>>
    /\ pc = "fetch"
    /\ sCol = <<>>
    /\ output = <<>>
    /\ site = <<>>
    /\ details = <<>>
    /\ entry = "none"
    /\ iPage = 0
    /\ rDocument = <<>>
    /\ lArticles = <<>>
    /\ fetched = <<>>
    /\ yielded = <<>>
    /\ extracted = <<>>
    /\ dupInsert = FALSE
    /\ run = 0
    /\ sColAtStart = <<>>
    /\ prevAbort = FALSE
    /\ failure = "none"

\* extract_article_data, lines 57-58: the detail document is read; its
\* table holds the one row <<name cell, value cell>>
ReadRow ==
    /\ pc = "fetch"
    /\ \/ input' \in SpecNames \X ValueSamples
       \/ \E n \in 0..MaxValueLen : input' \in SpecNames \X [1..n -> ValueAlphabet]
       \/ input' \in KeyNames \X {Yes}
    /\ pc' = "row"
    /\ UNCHANGED <<site, details, sCol, entry, iPage, rDocument, lArticles,
                   fetched, yielded, extracted, dupInsert, run, sColAtStart,
                   prevAbort, failure, output>>

\* build_db, lines 107-109: the article is extracted and inserted
ExtractRow ==
    /\ pc = "row"
    /\ sCol' = Append(sCol, ExtractArticleData(A1, RowDoc(input)).data)
    /\ pc' = "stored"
    /\ UNCHANGED <<site, details, entry, iPage, rDocument, lArticles, fetched,
                   yielded, extracted, dupInsert, run, sColAtStart, prevAbort,
                   failure, input, output>>

\* main, line 264
ReportKeys ==
    /\ pc = "stored"
    /\ output' = FindDistinctSpecs(sCol)
    /\ pc' = "reported"
    /\ UNCHANGED <<site, details, sCol, entry, iPage, rDocument, lArticles,
                   fetched, yielded, extracted, dupInsert, run, sColAtStart,
                   prevAbort, failure, input>>

NextRow == ReadRow \/ ExtractRow \/ ReportKeys

SpecRow == InitRow /\ [][NextRow]_vars

\* the row's name and the value the pattern captures from the value cell
RowName == input[1]

RowValue == Strip(input[2])

\* the stored value of the row
StoredValue == sCol[1].spec[EscapeName(RowName)]

\* the maximal digit runs of s, as the set of their <<first, last>> positions
RunsOf(s) ==
    {r \in (1..Len(s)) \X (1..Len(s)) :
        /\ r[1] <= r[2]
        /\ \A i \in r[1]..r[2] : s[i] \in Digits
        /\ (r[1] = 1 \/ s[r[1] - 1] \notin Digits)
        /\ (r[2] = Len(s) \/ s[r[2] + 1] \notin Digits)}

\* the k-th run of s, from the left
RunNo(s, k) ==
    CHOOSE r \in RunsOf(s) : Cardinality({q \in RunsOf(s) : q[1] < r[1]}) = k - 1

\* n is the number the digit string s writes
IsNumberOf(n, s) ==
    /\ n >= 0
    /\ n < 10 ^ Len(s)
    /\ \A i \in 1..Len(s) : (n \div 10 ^ (Len(s) - i)) % 10 = DigitVal(s[i])

\* C5: the stored value of a row follows the first rule that applies: an
\* uninterpreted name keeps the raw value; "No" and "Yes" give false and true;
\* digits only give the integer they write; a float literal gives a float;
\* otherwise no digit run gives the integer 0, one run gives that run as a
\* string, and several runs give the list of the runs in order.
C5_TypeInference ==
    pc \in {"stored", "reported"} =>
        LET v == StoredValue
            raw == RowValue
            n == Cardinality(RunsOf(raw))
        IN  IF RowName \in {THX, VideoScaling}
                THEN v.type = "str" /\ v.val = raw
            ELSE IF raw = No THEN v.type = "bool" /\ v.val = FALSE
            ELSE IF raw = Yes THEN v.type = "bool" /\ v.val = TRUE
            ELSE IF raw # <<>> /\ \A i \in 1..Len(raw) : raw[i] \in Digits
                THEN v.type = "int" /\ IsNumberOf(v.val, raw)
            ELSE IF FloatParses(raw) THEN v.type = "float"
            ELSE IF n = 0 THEN v.type = "int" /\ v.val = 0
            ELSE IF n = 1
                THEN /\ v.type = "str"
                     /\ v.val = SubSeq(raw, RunNo(raw, 1)[1], RunNo(raw, 1)[2])
            ELSE /\ v.type = "list"
                 /\ Len(v.val) = n
                 /\ \A k \in 1..n :
                       v.val[k] = SubSeq(raw, RunNo(raw, k)[1], RunNo(raw, k)[2])

\* "5/10 ch" under an interpreted name is stored as the list <<"5", "10">>
C5_Witness ==
    /\ pc = "stored"
    /\ RowName = <<"H", "D", "M", "I">>
    /\ RowValue = <<"5", "/", "1", "0", " ", "c", "h">>
    /\ StoredValue = [type |-> "list", val |-> << <<"5">>, <<"1", "0">> >>]

\* C6: a spec name holding a period is reported by find_distinct_specs as it
\* was written in the document.
C6_KeyRoundTrip ==
    (pc = "reported" /\ Contains(RowName, Period)) => output.value = {RowName}

-----------------------------------------------------------------------------
(* The aggregations over a stored corpus                                   *)

\* most documents in the corpus the aggregations are called on
MaxCorpus == 3

Prices == {0, 100, 200, 300, 2499, 2500, 2501}

Ratings == {4, 5}

DigitChar(i) == CHOOSE c \in Digits : DigitVal(c) = i

\* the i-th document of a corpus: what build_db stores for an article with
\* this price and rating
CorpusDoc(i, price, rating) ==
    [URL    |-> <<"/", DigitChar(i)>>,
     name   |-> <<"A", "V", "R">>,
     price  |-> price,
     rating |-> rating,
     spec   |-> SpecOfRows(MatchRows(GoodDoc.table), <<>>)]

InitAgg ==
    /\ sCol = <<>>
    /\ pc = "corpus"
    /\ output = <<>>
    /\ input = <<>>
    /\ site = <<>>
    /\ details = <<>>
    /\ entry = "none"
    /\ iPage = 0
    /\ rDocument = <<>>
    /\ lArticles = <<>>
    /\ fetched = <<>>
    /\ yielded = <<>>
    /\ extracted = <<>>
    /\ dupInsert = FALSE
    /\ run = 0
    /\ sColAtStart = <<>>
    /\ prevAbort = FALSE
    /\ failure = "none"

\* build_db, line 109: one more document is stored
InsertDoc ==
    /\ pc = "corpus"
    /\ Len(sCol) < MaxCorpus
    /\ \E price \in Prices, rating \in Ratings :
          sCol' = Append(sCol, CorpusDoc(Len(sCol) + 1, price, rating))
    /\ UNCHANGED <<site, details, pc, entry, iPage, rDocument, lArticles,
                   fetched, yielded, extracted, dupInsert, run, sColAtStart,
                   prevAbort, failure, input, output>>

Returned(op, result) ==
    /\ pc = "corpus"
    /\ output' = [op |-> op, result |-> result]
    /\ pc' = "returned"
    /\ UNCHANGED <<site, details, sCol, entry, iPage, rDocument, lArticles,
                   fetched, yielded, extracted, dupInsert, run, sColAtStart,
                   prevAbort, failure, input>>

\* main, line 262
CallGetPriceRange == Returned("get_price_range", GetPriceRange(sCol))

\* main, line 263
CallPriceSpreadByRating ==
    Returned("price_spread_by_rating", PriceSpreadByRating(sCol))

\* main, line 264
CallFindDistinctSpecs == Returned("find_distinct_specs", FindDistinctSpecs(sCol))

\* main, line 265
CallCalcRatingPriceFrequency ==
    Returned("calc_rating_price_frequency", CalcRatingPriceFrequency(sCol))

NextAgg ==
    \/ InsertDoc
    \/ CallGetPriceRange
    \/ CallPriceSpreadByRating
    \/ CallFindDistinctSpecs
    \/ CallCalcRatingPriceFrequency

SpecAgg == InitAgg /\ [][NextAgg]_vars

\* the positions of the documents with this rating
Group(rating) == {i \in 1..Len(sCol) : sCol[i].rating = rating}

\* the sum of the second components of a set of pairs
RECURSIVE SumPairs(_)
SumPairs(S) ==
    IF S = {} THEN 0
    ELSE LET x == CHOOSE y \in S : TRUE IN x[2] + SumPairs(S \ {x})

RECURSIVE GCD(_, _)
GCD(m, n) == IF n = 0 THEN m ELSE GCD(n, m % n)

\* the fractions n1/d1 and n2/d2 are equal (d1, d2 > 0; n1, n2 >= 0)
SameFraction(n1, d1, n2, d2) ==
    /\ n1 \div GCD(n1, d1) = n2 \div GCD(n2, d2)
    /\ d1 \div GCD(n1, d1) = d2 \div GCD(n2, d2)

\* C7: for every rating group with prices p1..pN the reported mean is
\* (p1+...+pN)/N, and the reported standard deviation s satisfies
\* s*s*N = sum of (pi - mean)^2.
\* With mean = T/N the sum is D/N^2 for D = sum of (pi*N - T)^2, and the
\* reported s is sqrt(a/b)/c, so the equation reads a*N/(b*c*c) = D/(N*N).
C7_PopulationStdDev ==
    (pc = "returned" /\ output.op = "price_spread_by_rating") =>
        \A row \in output.result.value :
            LET G == Group(row.rating)
                N == Cardinality(G)
                T == SumPairs({<<i, sCol[i].price>> : i \in G})
                D == SumPairs({<<i, (sCol[i].price * N - T) * (sCol[i].price * N - T)>> : i \in G})
                a == row.stddev.sqrtOf.num
                b == row.stddev.sqrtOf.den
                c == row.stddev.over
            IN  /\ row.mean.num * N = T * row.mean.den
                /\ SameFraction(a * N, b * c * c, D, N * N)

\* the part of C7 about the mean, and the standard deviation as computed:
\* s*N = sqrt(sum of (pi - mean)^2), that is a*N*N/(b*c*c) = D/(N*N)
C7_AsComputed ==
    (pc = "returned" /\ output.op = "price_spread_by_rating") =>
        \A row \in output.result.value :
            LET G == Group(row.rating)
                N == Cardinality(G)
                T == SumPairs({<<i, sCol[i].price>> : i \in G})
                D == SumPairs({<<i, (sCol[i].price * N - T) * (sCol[i].price * N - T)>> : i \in G})
                a == row.stddev.sqrtOf.num
                b == row.stddev.sqrtOf.den
                c == row.stddev.over
            IN  /\ row.mean.num * N = T * row.mean.den
                /\ SameFraction(a * N * N, b * c * c, D, N * N)

\* the smallest multiple of the bucket width that is >= price
SmallestMultiple(price) ==
    CHOOSE b \in {k * 500 : k \in 0..(price \div 500 + 1)} :
        /\ b >= price
        /\ \A k \in 0..(price \div 500 + 1) : k * 500 >= price => b <= k * 500

\* C8: the histogram has exactly one entry for each pair (rating, bucket) some
\* document maps to, the bucket of a price being the smallest multiple of 500
\* that is >= the price; an entry's count is the number of documents mapping
\* to its pair, and the counts add up to the size of the corpus.
C8_Histogram ==
    (pc = "returned" /\ output.op = "calc_rating_price_frequency") =>
        LET H == output.result.value
            PairOf(i) == <<sCol[i].rating, SmallestMultiple(sCol[i].price)>>
        IN  /\ output.result.ok
            /\ \A i \in 1..Len(sCol) :
                  Cardinality({e \in H : <<e.rating, e.price>> = PairOf(i)}) = 1
            /\ \A e \in H :
                  /\ \E i \in 1..Len(sCol) : PairOf(i) = <<e.rating, e.price>>
                  /\ e.count = Cardinality({i \in 1..Len(sCol) :
                                               PairOf(i) = <<e.rating, e.price>>})
            /\ SumPairs({<<e, e.count>> : e \in H}) = Len(sCol)
            /\ \A i \in 1..Len(sCol) :
                  /\ sCol[i].price = 2499 => PairOf(i)[2] = 2500
                  /\ sCol[i].price = 2500 => PairOf(i)[2] = 2500
                  /\ sCol[i].price = 2501 => PairOf(i)[2] = 3000
                  /\ sCol[i].price = 0 => PairOf(i)[2] = 0

\* prices 2499, 2500 and 2501 of one rating: bucket 2500 twice, 3000 once
C8_Witness ==
    /\ pc = "returned"
    /\ output.op = "calc_rating_price_frequency"
    /\ {sCol[i].price : i \in 1..Len(sCol)} = {2499, 2500, 2501}
    /\ output.result.value =
          {[rating |-> 5, price |-> 2500, count |-> 2],
           [rating |-> 5, price |-> 3000, count |-> 1]}

\* C9: called on an empty corpus, each of the four aggregations ends in an
\* error.
C9_EmptyCorpusError ==
    (pc = "returned" /\ sCol = <<>>) => ~output.result.ok

\* C9 as the code has it: on an empty corpus get_price_range ends in an error,
\* and the other three aggregations return an empty result
C9_EmptyCorpus ==
    (pc = "returned" /\ sCol = <<>>) =>
        IF output.op = "get_price_range" THEN ~output.result.ok
        ELSE output.result.ok /\ output.result.value = {}

\* get_price_range called on the empty corpus
C9_Witness ==
    /\ pc = "returned"
    /\ sCol = <<>>
    /\ output.op = "get_price_range"
    /\ ~output.result.ok

=============================================================================
